---- MODULE Spec2Model ----
(***************************************************************************)
(* RegisterUZ MCP server: the tool dispatcher (server.py call_tool), the   *)
(* HTTP client (client.py RegisterUZClient) with its cursor pagination     *)
(* loop get_all_ids, the request/response types (types.py) and the         *)
(* configuration loader (config.py), against an arbitrary upstream.        *)
(***************************************************************************)
EXTENDS Integers, Sequences, FiniteSets, TLC

(***************************************************************************)
(* Python / JSON values.  Every value carries its type tag, so that a      *)
(* value of the wrong type is a value the model can hold and test.         *)
(* Absent marks a key that a dict or JSON object does not contain; None is *)
(* Python's None / JSON null.                                              *)
(***************************************************************************)
Absent == [t |-> "absent"]
None == [t |-> "none"]
IntV(n) == [t |-> "int", v |-> n]
StrV(s) == [t |-> "str", v |-> s]
BoolV(b) == [t |-> "bool", v |-> b]
ListV(s) == [t |-> "list", v |-> s]

\* Python truth value of an object (bool(x)).
Truthy(x) ==
    CASE x.t = "none" -> FALSE
      [] x.t = "int" -> x.v # 0
      [] x.t = "str" -> x.v # ""
      [] x.t = "bool" -> x.v
      [] x.t = "list" -> x.v # <<>>
      [] OTHER -> FALSE

\* Python  a or b
PyOr(a, b) == IF Truthy(a) THEN a ELSE b

\* Python  s[:k]  on a list: negative k counts from the end.
Slice(s, k) ==
    LET n == IF k >= 0 THEN (IF k < Len(s) THEN k ELSE Len(s))
             ELSE (IF Len(s) + k > 0 THEN Len(s) + k ELSE 0)
    IN  SubSeq(s, 1, n)

\* dict.get(key): None when the key is missing.
DictGet(d, k) == IF d[k] = Absent THEN None ELSE d[k]

\* An exception object: its class name, its message and, for the API error,
\* the status_code attribute.
Exc(type, msg, arg, status_code) ==
    [type |-> type, msg |-> msg, arg |-> arg, status_code |-> status_code]

Ok(value) == [ok |-> TRUE, value |-> value]
Raise(error) == [ok |-> FALSE, error |-> error]

(***************************************************************************)
(* config.py                                                               *)
(***************************************************************************)
\* The environment gives each variable as unset (Absent), as a string that
\* int() parses (IntV of the parsed number) or as any other string (StrV).
DefaultTimeout == 30
DefaultMaxRecords == 1000
DefaultFromDate == "2000-01-01"
MinTimeout == 1
MaxTimeout == 300
MinMaxRecords == 1
MaxMaxRecords == 10000

\* The strings that match ^\d{4}-\d{2}-\d{2}$ among the strings of the model.
DateStrings == {"2000-01-01", "2024-01-01"}

\* os.getenv(name, default)
getenv(env, name, default) == IF env[name] = Absent THEN default ELSE env[name]

\* RegisterUZConfig(...): the field constraints and validate_date_format.
RegisterUZConfig(timeout, max_records, default_from_date) ==
    IF /\ timeout >= MinTimeout /\ timeout <= MaxTimeout
       /\ max_records >= MinMaxRecords /\ max_records <= MaxMaxRecords
       /\ default_from_date \in DateStrings
    THEN Ok([timeout |-> timeout, max_records |-> max_records,
             default_from_date |-> default_from_date])
    ELSE Raise(Exc("ValidationError", "RegisterUZConfig", None, None))

\* get_config(): int() of the two numeric variables, then the model.
get_config(env) ==
    LET timeout == getenv(env, "REGISTERUZ_TIMEOUT", IntV(DefaultTimeout))
        max_records == getenv(env, "REGISTERUZ_MAX_RECORDS", IntV(DefaultMaxRecords))
        from_date == getenv(env, "REGISTERUZ_DEFAULT_FROM_DATE", StrV(DefaultFromDate))
    IN  IF timeout.t # "int" \/ max_records.t # "int"
        THEN Raise(Exc("ValueError", "invalid literal for int()", None, None))
        ELSE RegisterUZConfig(timeout.v, max_records.v, from_date.v)

(***************************************************************************)
(* types.py                                                                *)
(***************************************************************************)
EntityTypes == {"uctovne-jednotky", "uctovne-zavierky", "uctovne-vykazy", "vyrocne-spravy"}

\* EntityType(value): the enum member, or ValueError.
EntityType(value) ==
    IF value.t = "str" /\ value.v \in EntityTypes
    THEN Ok(value.v)
    ELSE Raise(Exc("ValueError", "is not a valid EntityType", value, None))

MinMaxZaznamov == 1
MaxMaxZaznamov == 10000

IsOptional(x, tag) == x = None \/ x.t = tag

\* BaseSearchParams(zmenene_od=..., pokracovat_za_id=..., max_zaznamov=...)
BaseSearchParams(zmenene_od, pokracovat_za_id, max_zaznamov) ==
    IF /\ zmenene_od.t = "str"
       /\ IsOptional(pokracovat_za_id, "int")
       /\ IsOptional(max_zaznamov, "int")
       /\ max_zaznamov.t = "int" =>
             /\ max_zaznamov.v >= MinMaxZaznamov
             /\ max_zaznamov.v <= MaxMaxZaznamov
    THEN Ok([zmenene_od |-> zmenene_od, pokracovat_za_id |-> pokracovat_za_id,
             max_zaznamov |-> max_zaznamov,
             ico |-> None, dic |-> None, pravna_forma |-> None])
    ELSE Raise(Exc("ValidationError", "BaseSearchParams", None, None))

\* AccountingEntitySearchParams(...): the base fields and the three filters.
AccountingEntitySearchParams(zmenene_od, pokracovat_za_id, max_zaznamov, ico, dic, pravna_forma) ==
    LET base == BaseSearchParams(zmenene_od, pokracovat_za_id, max_zaznamov)
    IN  IF /\ base.ok
           /\ IsOptional(ico, "str")
           /\ IsOptional(dic, "str")
           /\ IsOptional(pravna_forma, "str")
        THEN Ok([base.value EXCEPT !.ico = ico, !.dic = dic,
                                   !.pravna_forma = pravna_forma])
        ELSE Raise(Exc("ValidationError", "AccountingEntitySearchParams", None, None))

\* Mutation of ApiResponse: both fields are required.
ApiResponseRequiringFields(data) ==
    IF data.t # "obj"
    THEN Raise(Exc("TypeError", "argument after ** must be a mapping", None, None))
    ELSE IF data.v.id.t = "list" /\ data.v.existujeDalsieId.t = "bool"
    THEN Ok([id |-> data.v.id.v, existujeDalsieId |-> data.v.existujeDalsieId.v])
    ELSE Raise(Exc("ValidationError", "ApiResponse", None, None))

\* ApiResponse(**data): id defaults to [] and existujeDalsieId to False;
\* a value of another type (null included) is a ValidationError, a body that
\* is not a JSON object is a TypeError of the ** call.
ApiResponse(data) ==
    IF data.t # "obj"
    THEN Raise(Exc("TypeError", "argument after ** must be a mapping", None, None))
    ELSE LET id == data.v.id
             more == data.v.existujeDalsieId
         IN  IF /\ id = Absent \/ id.t = "list"
                /\ more = Absent \/ more.t = "bool"
             THEN Ok([id |-> IF id = Absent THEN <<>> ELSE id.v,
                      existujeDalsieId |-> IF more = Absent THEN FALSE ELSE more.v])
             ELSE Raise(Exc("ValidationError", "ApiResponse", None, None))

(***************************************************************************)
(* The upstream: HTTP responses.  A response is a transport failure (the   *)
(* GET raised an httpx.HTTPError) or a status with a body; a body is not   *)
(* JSON, a JSON array, or a JSON object, given as the value of each key    *)
(* the decoders look at (Absent when the object omits the key).  A body    *)
(* that is not JSON makes the parser raise json.JSONDecodeError; bytes     *)
(* that are not valid UTF-8 make it raise UnicodeDecodeError, and nesting  *)
(* beyond the interpreter's limit RecursionError.                          *)
(***************************************************************************)
JsonKeys == {"id", "existujeDalsieId", "pocet", "sablony", "suggestions",
             "nazovUJ", "konsolidovana"}
EmptyObj == [k \in JsonKeys |-> Absent]
Obj(v) == [t |-> "obj", v |-> v]
NotJson == [t |-> "notjson"]
Unparsable(raises) == [t |-> "unparsable", raises |-> raises]
Array(s) == [t |-> "array", v |-> s]

TransportFailure == [kind |-> "transport"]
HttpResponse(status, body) == [kind |-> "http", status |-> status, body |-> body]

\* A listing page {id: [...], existujeDalsieId: ...}
Page(ids, more) == Obj([EmptyObj EXCEPT !.id = ListV(ids), !.existujeDalsieId = BoolV(more)])

(***************************************************************************)
(* client.py                                                               *)
(***************************************************************************)
\* The query parameters and paths of a request: every wire name, Absent when
\* the request does not carry it.
WireKeys == {"zmenene-od", "pokracovat-za-id", "max-zaznamov", "ico", "dic",
             "pravna-forma", "id", "query"}
NoParams == [k \in WireKeys |-> Absent]
ApiBase == "https://www.registeruz.sk/cruz-public/api"
SuggestionUrl == "https://www.registeruz.sk/cruz-public/domain/suggestion/search"
Request(base, path, params) == [base |-> base, path |-> path, params |-> params]

\* response.raise_for_status(): success is a 2xx status.
IsSuccess(status) == status >= 200 /\ status <= 299

\* response.json(): the parsed body, or the exception the parser raises.
ResponseJson(body) ==
    CASE body.t = "notjson" -> Raise(Exc("JSONDecodeError", "Expecting value", None, None))
      [] body.t = "unparsable" -> Raise(Exc(body.raises, "while parsing the body", None, None))
      [] OTHER -> Ok(body)

\* Mutation of _handle_response: no raise_for_status(), the body of every
\* response is parsed.
HandleResponseWithoutStatusCheck(response) ==
    LET data == ResponseJson(response.body)
    IN  IF ~data.ok /\ data.error.type = "JSONDecodeError"
        THEN Raise(Exc("RegisterUZAPIError", "Invalid JSON response", None, None))
        ELSE data

\* RegisterUZClient._handle_response: raise_for_status(), then json() with
\* except json.JSONDecodeError; any other exception of json() propagates.
_handle_response(response) ==
    IF ~IsSuccess(response.status)
    THEN Raise(Exc("RegisterUZAPIError", "API request failed",
                   IntV(response.status), IntV(response.status)))
    ELSE LET data == ResponseJson(response.body)
         IN  IF ~data.ok /\ data.error.type = "JSONDecodeError"
             THEN Raise(Exc("RegisterUZAPIError", "Invalid JSON response", None, None))
             ELSE data

\* RegisterUZClient._build_params
_build_params(params) ==
    [NoParams EXCEPT
        !["zmenene-od"] = params.zmenene_od,
        !["pokracovat-za-id"] =
            IF params.pokracovat_za_id # None THEN params.pokracovat_za_id ELSE Absent,
        !["max-zaznamov"] =
            IF params.max_zaznamov # None THEN params.max_zaznamov ELSE Absent]

\* Mutation of AccountingEntitiesRequest: the filters are not added to the
\* base parameters.
AccountingEntitiesRequestWithoutFilters(params) ==
    Request(ApiBase, <<"uctovne-jednotky">>, _build_params(params))

\* The request of get_accounting_entities: the base parameters and the
\* filters that are truthy.
AccountingEntitiesRequest(params) ==
    LET query_params == _build_params(params)
    IN  Request(ApiBase, <<"uctovne-jednotky">>,
                [query_params EXCEPT
                    !["ico"] = IF Truthy(params.ico) THEN params.ico ELSE Absent,
                    !["dic"] = IF Truthy(params.dic) THEN params.dic ELSE Absent,
                    !["pravna-forma"] = IF Truthy(params.pravna_forma)
                                        THEN params.pravna_forma ELSE Absent])

\* The listing operations, by the client method's name: path and failure text.
ListingOps == {"get_accounting_entities", "get_financial_statements",
               "get_financial_reports", "get_annual_reports"}

ListingPath(op) ==
    CASE op = "get_accounting_entities" -> <<"uctovne-jednotky">>
      [] op = "get_financial_statements" -> <<"uctovne-zavierky">>
      [] op = "get_financial_reports" -> <<"uctovne-vykazy">>
      [] op = "get_annual_reports" -> <<"vyrocne-spravy">>

\* The request a listing operation sends for its parameters.
ListingRequest(op, params) ==
    IF op = "get_accounting_entities"
    THEN AccountingEntitiesRequest(params)
    ELSE Request(ApiBase, ListingPath(op), _build_params(params))

\* Mutation of ClientData: no except clause, the GET's httpx error leaves
\* the operation as it is.
ClientDataWithoutExcept(failed_to, response) ==
    IF response.kind = "transport"
    THEN Raise(Exc("ConnectError", failed_to, None, None))
    ELSE _handle_response(response)

\* The try/except of every client operation on the shared client: an
\* httpx.HTTPError of the GET becomes RegisterUZAPIError without a status,
\* _handle_response's error propagates unchanged.
ClientData(failed_to, response) ==
    IF response.kind = "transport"
    THEN Raise(Exc("RegisterUZAPIError", failed_to, None, None))
    ELSE _handle_response(response)

ListingFailure(op) ==
    CASE op = "get_accounting_entities" -> "Failed to get accounting entities"
      [] op = "get_financial_statements" -> "Failed to get financial statements"
      [] op = "get_financial_reports" -> "Failed to get financial reports"
      [] op = "get_annual_reports" -> "Failed to get annual reports"

\* get_accounting_entities .. get_annual_reports on the response received:
\* the decoder's error propagates unchanged too.
ListingResult(op, response) ==
    LET data == ClientData(ListingFailure(op), response)
    IN  IF data.ok THEN ApiResponse(data.value) ELSE data

\* RemainingCountResponse(**data): pocet is required.
RemainingCountResponse(data) ==
    IF data.t # "obj"
    THEN Raise(Exc("TypeError", "argument after ** must be a mapping", None, None))
    ELSE IF data.v.pocet.t = "int"
    THEN Ok([pocet |-> data.v.pocet.v])
    ELSE Raise(Exc("ValidationError", "RemainingCountResponse", None, None))

\* Template(**item): id is required, the other fields default to None.
TemplateOk(item) ==
    /\ item.id.t = "int"
    /\ item.nazov = Absent \/ IsOptional(item.nazov, "str")
    /\ item.tabulky = Absent \/ IsOptional(item.tabulky, "list")
    /\ item.nariadenieMF = Absent \/ IsOptional(item.nariadenieMF, "str")

Template(item) ==
    [id |-> item.id.v,
     nazov |-> DictGet(item, "nazov"),
     tabulky |-> DictGet(item, "tabulky"),
     nariadenieMF |-> DictGet(item, "nariadenieMF")]

\* TemplatesResponse(**data): sablony defaults to [].
TemplatesResponse(data) ==
    IF data.t # "obj"
    THEN Raise(Exc("TypeError", "argument after ** must be a mapping", None, None))
    ELSE LET sablony == data.v.sablony
         IN  IF sablony = Absent
             THEN Ok([sablony |-> <<>>])
             ELSE IF /\ sablony.t = "list"
                     /\ \A i \in 1..Len(sablony.v) : TemplateOk(sablony.v[i])
             THEN Ok([sablony |-> [i \in 1..Len(sablony.v) |-> Template(sablony.v[i])]])
             ELSE Raise(Exc("ValidationError", "TemplatesResponse", None, None))

\* The detail records: id is required; of the optional fields the model
\* keeps nazovUJ and konsolidovana, for the classes that declare them.
\* A key the class does not declare is ignored, a declared one that the
\* body omits becomes None.
DetailOps == {"get_accounting_entity_detail", "get_financial_statement_detail",
              "get_financial_report_detail", "get_annual_report_detail"}

DetailFields(op) ==
    CASE op = "get_accounting_entity_detail" -> {"id", "nazovUJ", "konsolidovana"}
      [] op = "get_financial_statement_detail" -> {"id", "konsolidovana"}
      [] op = "get_financial_report_detail" -> {"id"}
      [] op = "get_annual_report_detail" -> {"id", "nazovUJ"}

DetailFieldType(field) ==
    CASE field = "id" -> "int"
      [] field = "nazovUJ" -> "str"
      [] field = "konsolidovana" -> "bool"

DetailRecord(op, data) ==
    IF data.t # "obj"
    THEN Raise(Exc("TypeError", "argument after ** must be a mapping", None, None))
    ELSE IF /\ data.v.id.t = "int"
            /\ \A f \in DetailFields(op) \ {"id"} :
                  data.v[f] = Absent \/ IsOptional(data.v[f], DetailFieldType(f))
    THEN Ok([f \in DetailFields(op) |-> DictGet(data.v, f)])
    ELSE Raise(Exc("ValidationError", op, None, None))

DetailPath(op) ==
    CASE op = "get_accounting_entity_detail" -> <<"uctovna-jednotka">>
      [] op = "get_financial_statement_detail" -> <<"uctovna-zavierka">>
      [] op = "get_financial_report_detail" -> <<"uctovny-vykaz">>
      [] op = "get_annual_report_detail" -> <<"vyrocna-sprava">>

\* get_remaining_count, get_templates and the four detail operations: the
\* request each sends.
RemainingCountRequest(entity_type) ==
    Request(ApiBase, <<"zostavajuce-id", entity_type>>, NoParams)

TemplatesRequest == Request(ApiBase, <<"sablony">>, NoParams)

DetailRequest(op, id) ==
    Request(ApiBase, DetailPath(op), [NoParams EXCEPT !["id"] = id])

SuggestionsRequest(query) ==
    Request(SuggestionUrl, <<>>, [NoParams EXCEPT !["query"] = query])

\* ... and what each makes of the response.
RemainingCountResult(response) ==
    LET data == ClientData("Failed to get remaining count", response)
    IN  IF data.ok THEN RemainingCountResponse(data.value) ELSE data

TemplatesResult(response) ==
    LET data == ClientData("Failed to get templates", response)
    IN  IF data.ok THEN TemplatesResponse(data.value) ELSE data

DetailResult(op, response) ==
    LET data == ClientData(op, response)
    IN  IF data.ok THEN DetailRecord(op, data.value) ELSE data

\* get_entity_suggestions: its own httpx.get; every exception becomes
\* RegisterUZAPIError, with the status for an HTTP status error.
get_entity_suggestions(response) ==
    IF response.kind = "transport"
    THEN Raise(Exc("RegisterUZAPIError", "Failed to get entity suggestions", None, None))
    ELSE IF ~IsSuccess(response.status)
    THEN Raise(Exc("RegisterUZAPIError", "Failed to get entity suggestions",
                   IntV(response.status), IntV(response.status)))
    ELSE IF ~ResponseJson(response.body).ok
    THEN Raise(Exc("RegisterUZAPIError", "Failed to get entity suggestions", None, None))
    ELSE IF response.body.t = "array"
    THEN Ok(ListV(response.body.v))
    ELSE IF response.body.v.suggestions # Absent
    THEN Ok(response.body.v.suggestions)
    ELSE Ok(ListV(<<"str(data)">>))

(***************************************************************************)
(* RegisterUZClient.get_all_ids, one iteration of its loop at a time       *)
(***************************************************************************)
\* The client method each entity type is fetched with ("" for the else
\* branch that raises ValueError).
GetAllIdsOp(entity_type) ==
    CASE entity_type = "uctovne-jednotky" -> "get_accounting_entities"
      [] entity_type = "uctovne-zavierky" -> "get_financial_statements"
      [] entity_type = "uctovne-vykazy" -> "get_financial_reports"
      [] entity_type = "vyrocne-spravy" -> "get_annual_reports"
      [] OTHER -> ""

\* Mutation of GetAllIdsFromDate: the configured default, whatever the caller
\* passed.
DefaultFromDateOnly(from_date, config) == StrV(config.default_from_date)

\* from_date = from_date or self.config.default_from_date
GetAllIdsFromDate(from_date, config) == PyOr(from_date, StrV(config.default_from_date))

\* The top of the loop body: the parameters of the next page and its request.
GetAllIdsRequest(entity_type, from_date, continue_after_id, config) ==
    LET params ==
          IF entity_type = "uctovne-jednotky"
          THEN AccountingEntitySearchParams(from_date, continue_after_id,
                                            IntV(config.max_records), None, None, None)
          ELSE BaseSearchParams(from_date, continue_after_id, IntV(config.max_records))
    IN  IF ~params.ok THEN params
        ELSE IF GetAllIdsOp(entity_type) = ""
        THEN Raise(Exc("ValueError", "Unknown entity type", StrV(entity_type), None))
        ELSE Ok(ListingRequest(GetAllIdsOp(entity_type), params.value))

\* Mutation of Extend: the page is put in front of the ids collected so far.
ExtendPrepending(all_ids, ids) == ids \o all_ids

\* all_ids.extend(response.id)
Extend(all_ids, ids) == all_ids \o ids

\* Mutation of LimitReached: the limit counts as reached only once it is
\* exceeded.
LimitReachedWhenExceeded(max_total, all_ids) ==
    IF ~Truthy(max_total) THEN Ok(FALSE)
    ELSE IF max_total.t = "int" THEN Ok(Len(all_ids) > max_total.v)
    ELSE Raise(Exc("TypeError", ">= not supported between int and str", None, None))

\* max_total and len(all_ids) >= max_total : None and 0 are falsy, a number
\* is compared, a non-empty string makes >= raise TypeError.
LimitReached(max_total, all_ids) ==
    IF ~Truthy(max_total) THEN Ok(FALSE)
    ELSE IF max_total.t = "int" THEN Ok(Len(all_ids) >= max_total.v)
    ELSE Raise(Exc("TypeError", ">= not supported between int and str", None, None))

\* all_ids = all_ids[:max_total]
Truncate(all_ids, max_total) == Slice(all_ids, max_total.v)

\* not response.existujeDalsieId or not response.id
NoMoreRecords(response) == ~response.existujeDalsieId \/ response.id = <<>>

\* Mutation of NextCursor: the id before the last id of the page.
NextCursorBelowLastId(response) == IntV(response.id[Len(response.id)] - 1)

\* Mutation of NextCursor: the first id of the page instead of the last.
NextCursorFirstId(response) == IntV(response.id[1])

\* continue_after_id = response.id[-1]
NextCursor(response) == IntV(response.id[Len(response.id)])

\* Mutation of GetAllIdsStep: only existujeDalsieId = false stops the loop;
\* an empty page leaves no id to continue after.
GetAllIdsStepNoEmptyCheck(all_ids, max_total, page) ==
    IF ~page.ok
    THEN [kind |-> "raise", error |-> page.error]
    ELSE LET ids == all_ids \o page.value.id
             limit == LimitReached(max_total, ids)
         IN  IF ~limit.ok
             THEN [kind |-> "raise", error |-> limit.error]
             ELSE IF limit.value
             THEN [kind |-> "return", all_ids |-> Truncate(ids, max_total)]
             ELSE IF ~page.value.existujeDalsieId
             THEN [kind |-> "return", all_ids |-> ids]
             ELSE [kind |-> "continue", all_ids |-> ids,
                   continue_after_id |->
                       IF page.value.id = <<>> THEN None
                       ELSE IntV(page.value.id[Len(page.value.id)])]

\* Mutation of GetAllIdsStep: a failed page ends the loop with the ids
\* collected so far instead of the exception.
GetAllIdsStepPartial(all_ids, max_total, page) ==
    IF ~page.ok
    THEN [kind |-> "return", all_ids |-> all_ids]
    ELSE LET ids == all_ids \o page.value.id
             limit == LimitReached(max_total, ids)
         IN  IF ~limit.ok
             THEN [kind |-> "raise", error |-> limit.error]
             ELSE IF limit.value
             THEN [kind |-> "return", all_ids |-> Truncate(ids, max_total)]
             ELSE IF ~page.value.existujeDalsieId \/ page.value.id = <<>>
             THEN [kind |-> "return", all_ids |-> ids]
             ELSE [kind |-> "continue", all_ids |-> ids,
                   continue_after_id |-> IntV(page.value.id[Len(page.value.id)])]

\* Mutation of GetAllIdsStep: a failed page is requested again, with the
\* cursor the ids collected so far end in.
GetAllIdsStepRetrying(all_ids, max_total, page) ==
    IF ~page.ok
    THEN [kind |-> "continue", all_ids |-> all_ids,
          continue_after_id |-> IF all_ids = <<>> THEN None
                                ELSE IntV(all_ids[Len(all_ids)])]
    ELSE LET ids == all_ids \o page.value.id
             limit == LimitReached(max_total, ids)
         IN  IF ~limit.ok
             THEN [kind |-> "raise", error |-> limit.error]
             ELSE IF limit.value
             THEN [kind |-> "return", all_ids |-> Truncate(ids, max_total)]
             ELSE IF ~page.value.existujeDalsieId \/ page.value.id = <<>>
             THEN [kind |-> "return", all_ids |-> ids]
             ELSE [kind |-> "continue", all_ids |-> ids,
                   continue_after_id |-> IntV(page.value.id[Len(page.value.id)])]

\* The rest of the loop body, from the decoded page: the loop continues with
\* a new cursor, returns all_ids, or an exception leaves get_all_ids.
GetAllIdsStep(all_ids, max_total, page) ==
    IF ~page.ok
    THEN [kind |-> "raise", error |-> page.error]
    ELSE LET ids == Extend(all_ids, page.value.id)
             limit == LimitReached(max_total, ids)
         IN  IF ~limit.ok
             THEN [kind |-> "raise", error |-> limit.error]
             ELSE IF limit.value
             THEN [kind |-> "return", all_ids |-> Truncate(ids, max_total)]
             ELSE IF NoMoreRecords(page.value)
             THEN [kind |-> "return", all_ids |-> ids]
             ELSE [kind |-> "continue", all_ids |-> ids,
                   continue_after_id |-> NextCursor(page.value)]

(***************************************************************************)
(* server.py                                                               *)
(***************************************************************************)
\* The text of a TextContent is kept in its parts: the JSON document of a
\* success, or "Error: <type name>: <message>".
format_success_response(data) == <<[type |-> "text", text |-> [json |-> data]]>>

format_error_response(error) ==
    <<[type |-> "text",
       text |-> [prefix |-> "Error", error |-> error.type,
                 message |-> [msg |-> error.msg, arg |-> error.arg]]]>>

\* The names list_tools advertises, which are the names call_tool handles.
ToolNames == {"search_accounting_entities", "get_financial_statements",
              "get_financial_reports", "get_annual_reports", "get_templates",
              "get_remaining_count", "get_all_entity_ids", "get_entity_suggestions",
              "get_accounting_entity_detail", "get_financial_statement_detail",
              "get_financial_report_detail", "get_annual_report_detail"}

\* The argument bag: every key the tools read, Absent when not given.
ArgKeys == {"changed_from", "continue_after_id", "max_records", "ico", "dic",
            "legal_form", "entity_type", "max_total", "id", "query"}
NoArgs == [k \in ArgKeys |-> Absent]

\* arguments[key]
KeyError(key) == Exc("KeyError", key, None, None)

\* What call_tool hands to the client: the operation and its arguments.
NoSearchParams == [zmenene_od |-> None, pokracovat_za_id |-> None, max_zaznamov |-> None,
                   ico |-> None, dic |-> None, pravna_forma |-> None]
NoCall == [op |-> "", params |-> NoSearchParams, entity_type |-> "",
           from_date |-> None, max_total |-> None, id |-> None, query |-> None]

ToThread(call) == [kind |-> "call", call |-> call]
Caught(error) == [kind |-> "error", error |-> error]

\* The four listing branches: build the parameters, then call the client.
SearchBranch(op, arguments) ==
    IF arguments.changed_from = Absent
    THEN Caught(KeyError("changed_from"))
    ELSE LET params ==
               IF op = "get_accounting_entities"
               THEN AccountingEntitySearchParams(
                        arguments.changed_from,
                        DictGet(arguments, "continue_after_id"),
                        DictGet(arguments, "max_records"),
                        DictGet(arguments, "ico"),
                        DictGet(arguments, "dic"),
                        DictGet(arguments, "legal_form"))
               ELSE BaseSearchParams(
                        arguments.changed_from,
                        DictGet(arguments, "continue_after_id"),
                        DictGet(arguments, "max_records"))
         IN  IF params.ok
             THEN ToThread([NoCall EXCEPT !.op = op, !.params = params.value])
             ELSE Caught(params.error)

\* get_remaining_count and get_all_entity_ids: EntityType(arguments["entity_type"])
EntityBranch(op, arguments) ==
    IF arguments.entity_type = Absent
    THEN Caught(KeyError("entity_type"))
    ELSE LET entity_type == EntityType(arguments.entity_type)
         IN  IF ~entity_type.ok
             THEN Caught(entity_type.error)
             ELSE IF op = "get_remaining_count"
             THEN ToThread([NoCall EXCEPT !.op = op, !.entity_type = entity_type.value])
             ELSE ToThread([NoCall EXCEPT
                      !.op = op, !.entity_type = entity_type.value,
                      !.from_date = DictGet(arguments, "changed_from"),
                      !.max_total = DictGet(arguments, "max_total")])

\* The branches that read one required argument and pass it on unchecked.
RequiredBranch(op, key, arguments) ==
    IF arguments[key] = Absent
    THEN Caught(KeyError(key))
    ELSE IF key = "query"
    THEN ToThread([NoCall EXCEPT !.op = op, !.query = arguments[key]])
    ELSE ToThread([NoCall EXCEPT !.op = op, !.id = arguments[key]])

\* Mutation of Dispatch: no branch for get_entity_suggestions.
DispatchWithoutSuggestions(name, arguments) ==
    CASE name = "search_accounting_entities" -> SearchBranch("get_accounting_entities", arguments)
      [] name \in {"get_financial_statements", "get_financial_reports",
                   "get_annual_reports"} -> SearchBranch(name, arguments)
      [] name = "get_templates" -> ToThread([NoCall EXCEPT !.op = "get_templates"])
      [] name = "get_remaining_count" -> EntityBranch("get_remaining_count", arguments)
      [] name = "get_all_entity_ids" -> EntityBranch("get_all_ids", arguments)
      [] name \in DetailOps -> RequiredBranch(name, "id", arguments)
      [] OTHER -> Caught(Exc("ValueError", "Unknown tool", StrV(name), None))

\* The if/elif chain of call_tool up to the first await.
Dispatch(name, arguments) ==
    CASE name = "search_accounting_entities" -> SearchBranch("get_accounting_entities", arguments)
      [] name \in {"get_financial_statements", "get_financial_reports",
                   "get_annual_reports"} -> SearchBranch(name, arguments)
      [] name = "get_templates" -> ToThread([NoCall EXCEPT !.op = "get_templates"])
      [] name = "get_remaining_count" -> EntityBranch("get_remaining_count", arguments)
      [] name = "get_all_entity_ids" -> EntityBranch("get_all_ids", arguments)
      [] name = "get_entity_suggestions" -> RequiredBranch(name, "query", arguments)
      [] name \in DetailOps -> RequiredBranch(name, "id", arguments)
      [] OTHER -> Caught(Exc("ValueError", "Unknown tool", StrV(name), None))

\* template_info of one template: a key only for a truthy field.
TemplateInfo(template) ==
    [id |-> template.id,
     name |-> IF Truthy(template.nazov) THEN template.nazov ELSE Absent,
     regulation |-> IF Truthy(template.nariadenieMF) THEN template.nariadenieMF ELSE Absent,
     tables_count |-> IF Truthy(template.tabulky)
                      THEN IntV(Len(template.tabulky.v)) ELSE Absent]

\* result.dict(exclude_none=True)
ExcludeNone(record) ==
    [f \in DOMAIN record |-> IF record[f] = None THEN Absent ELSE record[f]]

\* Mutation of SuccessData: a listing's count is one more than the page
\* holds when more records exist.
SuccessDataCountingAhead(call, value) ==
    CASE call.op \in ListingOps ->
            Ok([ids |-> value.id, has_more |-> value.existujeDalsieId,
                count |-> IF value.existujeDalsieId THEN Len(value.id) + 1
                          ELSE Len(value.id)])
      [] call.op = "get_templates" ->
            LET templates_data ==
                  [i \in 1..Len(value.sablony) |-> TemplateInfo(value.sablony[i])]
            IN  Ok([templates |-> templates_data, count |-> Len(templates_data)])
      [] call.op = "get_remaining_count" ->
            Ok([entity_type |-> call.entity_type, remaining_count |-> value.pocet])
      [] call.op = "get_all_ids" ->
            Ok([entity_type |-> call.entity_type, ids |-> value, count |-> Len(value)])
      [] call.op = "get_entity_suggestions" ->
            IF value.t = "list"
            THEN Ok([suggestions |-> value.v, count |-> Len(value.v)])
            ELSE Raise(Exc("TypeError", "object has no len()", None, None))
      [] call.op \in DetailOps -> Ok(ExcludeNone(value))

\* The data each branch passes to format_success_response, from the value
\* the client operation returned.
SuccessData(call, value) ==
    CASE call.op \in ListingOps ->
            Ok([ids |-> value.id, has_more |-> value.existujeDalsieId,
                count |-> Len(value.id)])
      [] call.op = "get_templates" ->
            LET templates_data ==
                  [i \in 1..Len(value.sablony) |-> TemplateInfo(value.sablony[i])]
            IN  Ok([templates |-> templates_data, count |-> Len(templates_data)])
      [] call.op = "get_remaining_count" ->
            Ok([entity_type |-> call.entity_type, remaining_count |-> value.pocet])
      [] call.op = "get_all_ids" ->
            Ok([entity_type |-> call.entity_type, ids |-> value, count |-> Len(value)])
      [] call.op = "get_entity_suggestions" ->
            IF value.t = "list"
            THEN Ok([suggestions |-> value.v, count |-> Len(value.v)])
            ELSE Raise(Exc("TypeError", "object has no len()", None, None))
      [] call.op \in DetailOps -> Ok(ExcludeNone(value))

\* list_tools: the input schema each tool declares, as the required keys
\* and the JSON type of each property.
SchemaRequired(tool) ==
    CASE tool \in {"search_accounting_entities", "get_financial_statements",
                   "get_financial_reports", "get_annual_reports"} -> {"changed_from"}
      [] tool = "get_templates" -> {}
      [] tool \in {"get_remaining_count", "get_all_entity_ids"} -> {"entity_type"}
      [] tool = "get_entity_suggestions" -> {"query"}
      [] tool \in DetailOps -> {"id"}

SchemaProperties(tool) ==
    CASE tool = "search_accounting_entities" ->
            {"changed_from", "ico", "dic", "legal_form", "continue_after_id", "max_records"}
      [] tool \in {"get_financial_statements", "get_financial_reports",
                   "get_annual_reports"} ->
            {"changed_from", "continue_after_id", "max_records"}
      [] tool = "get_templates" -> {}
      [] tool = "get_remaining_count" -> {"entity_type"}
      [] tool = "get_all_entity_ids" -> {"entity_type", "changed_from", "max_total"}
      [] tool = "get_entity_suggestions" -> {"query"}
      [] tool \in DetailOps -> {"id"}

SchemaType(key) ==
    IF key \in {"continue_after_id", "max_records", "max_total", "id"}
    THEN "int" ELSE "str"

\* Mutation of list_tools: the seven tools of the first release only.
ListOfSevenTools ==
    [i \in 1..7 |->
        [name |-> <<"search_accounting_entities", "get_financial_statements",
                    "get_financial_reports", "get_annual_reports", "get_templates",
                    "get_remaining_count", "get_all_entity_ids">>[i]]]

\* list_tools(): the Tool objects in the order of the returned list, each
\* with its name and the required keys and properties of its inputSchema.
ToolList ==
    <<"search_accounting_entities", "get_financial_statements",
      "get_financial_reports", "get_annual_reports", "get_templates",
      "get_remaining_count", "get_all_entity_ids", "get_entity_suggestions",
      "get_accounting_entity_detail", "get_financial_statement_detail",
      "get_financial_report_detail", "get_annual_report_detail">>

list_tools ==
    [i \in 1..Len(ToolList) |->
        [name |-> ToolList[i], required |-> SchemaRequired(ToolList[i]),
         properties |-> SchemaProperties(ToolList[i])]]

(***************************************************************************)
(* Bounds and inputs of the model                                          *)
(***************************************************************************)
\* Pages one aggregation may request before the model stops following it.
MaxPages == 3
\* Largest max_total a caller passes.
MaxTotal == 3

\* The process environment: unset, a small page cap, and two settings that
\* get_config rejects.
EnvKeys == {"REGISTERUZ_TIMEOUT", "REGISTERUZ_MAX_RECORDS", "REGISTERUZ_DEFAULT_FROM_DATE"}
NoEnv == [k \in EnvKeys |-> Absent]
Envs == {NoEnv,
         [NoEnv EXCEPT !["REGISTERUZ_MAX_RECORDS"] = IntV(2)],
         [NoEnv EXCEPT !["REGISTERUZ_TIMEOUT"] = StrV("abc")],
         [NoEnv EXCEPT !["REGISTERUZ_MAX_RECORDS"] = IntV(0)]}

Names == ToolNames \cup {"unknown_tool"}

SearchBags ==
    { [NoArgs EXCEPT !.changed_from = cf, !.continue_after_id = ca, !.max_records = mr] :
        cf \in {Absent, StrV("2024-01-01"), IntV(7)},
        ca \in {Absent, IntV(3)},
        mr \in {Absent, IntV(0), IntV(5), IntV(10001), StrV("abc")} }
    \cup
    { [NoArgs EXCEPT !.changed_from = StrV("2024-01-01"), !.ico = StrV("12345678"),
                     !.dic = StrV(""), !.legal_form = StrV("112")] }

AllIdsBags ==
    { [NoArgs EXCEPT !.entity_type = et, !.changed_from = cf, !.max_total = mt] :
        et \in {Absent, StrV("bogus")} \cup {StrV(e) : e \in EntityTypes},
        cf \in {Absent, StrV("2024-01-01"), IntV(7)},
        mt \in {Absent, StrV("abc")} \cup {IntV(k) : k \in -2..MaxTotal} }

OtherBags ==
    { [NoArgs EXCEPT !.id = IntV(1)], [NoArgs EXCEPT !.id = StrV("abc")],
      [NoArgs EXCEPT !.query = StrV("firma")] }

ArgBags == SearchBags \cup AllIdsBags \cup OtherBags

\* What the upstream may answer.  Any endpoint may fail in transport, answer
\* a non-2xx status, a body that is not JSON, or a JSON array.
IdLists == {<<>>, <<1>>, <<2, 1>>, <<3, 4, 5>>}

FailureResponses ==
    {TransportFailure, HttpResponse(500, NotJson), HttpResponse(404, NotJson),
     HttpResponse(503, Page(<<1>>, FALSE)),
     HttpResponse(200, NotJson),
     HttpResponse(200, Unparsable("UnicodeDecodeError")),
     HttpResponse(200, Unparsable("RecursionError"))}

ListingBodies ==
    {Page(ids, more) : ids \in IdLists, more \in BOOLEAN}
    \cup {Obj([EmptyObj EXCEPT !.id = ListV(<<1>>)]),
          Obj([EmptyObj EXCEPT !.existujeDalsieId = BoolV(TRUE)]),
          Obj([EmptyObj EXCEPT !.id = StrV("x"), !.existujeDalsieId = BoolV(TRUE)])}

T1 == [id |-> IntV(1), nazov |-> StrV("Test Template"), tabulky |-> ListV(<<"t">>),
       nariadenieMF |-> Absent]
T2 == [id |-> IntV(2), nazov |-> None, tabulky |-> Absent, nariadenieMF |-> StrV("MF/1")]
TBad == [id |-> Absent, nazov |-> StrV("no id"), tabulky |-> Absent, nariadenieMF |-> Absent]

OtherBodies ==
    {Obj(EmptyObj),
     Obj([EmptyObj EXCEPT !.pocet = IntV(42)]),
     Obj([EmptyObj EXCEPT !.sablony = ListV(<<T1>>)]),
     Obj([EmptyObj EXCEPT !.sablony = ListV(<<T1, T2>>)]),
     Obj([EmptyObj EXCEPT !.sablony = ListV(<<TBad>>)]),
     Obj([EmptyObj EXCEPT !.suggestions = ListV(<<"Firma a.s.">>)]),
     Obj([EmptyObj EXCEPT !.suggestions = None]),
     Obj([EmptyObj EXCEPT !.id = IntV(1)]),
     Obj([EmptyObj EXCEPT !.id = IntV(1), !.nazovUJ = None]),
     Obj([EmptyObj EXCEPT !.id = IntV(1), !.nazovUJ = StrV("Firma"),
                          !.konsolidovana = BoolV(FALSE)])}

Responses(request) ==
    FailureResponses \cup {HttpResponse(200, Array(<<"Firma s.r.o.">>))}
    \cup {HttpResponse(200, b) :
            b \in IF request.base = ApiBase /\ request.path \in
                       {ListingPath(op) : op \in ListingOps}
                  THEN ListingBodies ELSE OtherBodies}

(***************************************************************************)
(* State                                                                   *)
(***************************************************************************)
VARIABLES
    env,                \* the process environment get_config reads
    pc,                 \* where the current call_tool invocation is
    name,               \* its tool name
    arguments,          \* its argument bag
    config,             \* the configuration it loaded
    client,             \* its RegisterUZClient: "none", "open" or "closed"
    call,               \* the client operation it runs and that operation's arguments
    all_ids,            \* get_all_ids: the ids accumulated
    continue_after_id,  \* get_all_ids: the cursor
    requests,           \* the requests this invocation has sent, in order
    responses,          \* the responses it has received, in order
    op_result,          \* what the client operation returned or raised
    outcome,            \* how the invocation ended
    previous,           \* how the invocation before it ended
    tasks,              \* the invocations in flight at the same time, by task
    tools               \* what list_tools returned to the caller last, <<>> before

call_vars == <<pc, name, arguments, config, client, call, all_ids,
               continue_after_id, requests, responses, op_result, outcome, previous>>
vars == <<env, call_vars, tasks, tools>>

NoOutcome == [kind |-> "none"]
NoResult == [kind |-> "none"]

\* One call_tool("get_all_entity_ids", ...) of several in flight: the
\* coroutine (co) awaits asyncio.to_thread while the worker thread (th) runs
\* get_all_ids on the invocation's own client with its own all_ids and
\* continue_after_id; cancelled_at is the number of requests sent when the
\* invocation was cancelled (-1 while it is not) and cancelled_th where the
\* thread was then.
TaskIds == {"t1", "t2"}
IdleTask ==
    [co |-> "idle", th |-> "none", arguments |-> NoArgs, config |-> Absent,
     client |-> "none", call |-> NoCall, all_ids |-> <<>>, continue_after_id |-> None,
     requests |-> <<>>, responses |-> <<>>, th_result |-> NoResult,
     outcome |-> NoOutcome, cancelled_at |-> -1, cancelled_th |-> "none"]
Returned(content) == [kind |-> "returned", content |-> content]
Raised(error) == [kind |-> "raised", error |-> error]

Init ==
    /\ env \in Envs
    /\ pc = "idle"
    /\ name = ""
    /\ arguments = NoArgs
    /\ config = Absent
    /\ client = "none"
    /\ call = NoCall
    /\ all_ids = <<>>
    /\ continue_after_id = None
    /\ requests = <<>>
    /\ responses = <<>>
    /\ op_result = NoResult
    /\ outcome = NoOutcome
    /\ previous = "none"
    /\ tasks = [t \in TaskIds |-> IdleTask]
    /\ tools = <<>>

\* The invocation ends inside the with block: __exit__ closes the client and
\* call_tool returns the content.
Finish(content) ==
    /\ pc' = "done"
    /\ client' = "closed"
    /\ outcome' = Returned(content)

\* call_tool(name, arguments), up to its first await: get_config() before
\* the try, then the client and the branch for the name.
CallTool(n, a) ==
    /\ pc = "idle"
    /\ name' = n
    /\ arguments' = a
    /\ LET cfg == get_config(env)
       IN  IF ~cfg.ok
           THEN /\ pc' = "done"
                /\ outcome' = Raised(cfg.error)
                /\ UNCHANGED <<config, client, call>>
           ELSE LET d == Dispatch(n, a)
                IN  /\ config' = cfg.value
                    /\ IF d.kind = "call"
                       THEN /\ pc' = "send"
                            /\ client' = "open"
                            /\ call' = IF d.call.op = "get_all_ids"
                                       THEN [d.call EXCEPT !.from_date =
                                               GetAllIdsFromDate(d.call.from_date, cfg.value)]
                                       ELSE d.call
                            /\ UNCHANGED outcome
                       ELSE /\ Finish(format_error_response(d.error))
                            /\ UNCHANGED call
    /\ UNCHANGED <<env, all_ids, continue_after_id, requests, responses, op_result,
                   previous, tasks, tools>>

\* The request an operation sends next, get_all_ids with its cursor (or the
\* exception that building it raises).
RequestOf(c, cursor, cfg) ==
    CASE c.op \in ListingOps -> Ok(ListingRequest(c.op, c.params))
      [] c.op = "get_all_ids" -> GetAllIdsRequest(c.entity_type, c.from_date, cursor, cfg)
      [] c.op = "get_templates" -> Ok(TemplatesRequest)
      [] c.op = "get_remaining_count" -> Ok(RemainingCountRequest(c.entity_type))
      [] c.op = "get_entity_suggestions" -> Ok(SuggestionsRequest(c.query))
      [] c.op \in DetailOps -> Ok(DetailRequest(c.op, c.id))

\* The request the running operation sends next.
NextRequest == RequestOf(call, continue_after_id, config)

\* The worker thread issues one GET.
SendRequest ==
    /\ pc = "send"
    /\ Len(requests) < MaxPages
    /\ LET request == NextRequest
       IN  IF request.ok
           THEN /\ requests' = Append(requests, request.value)
                /\ pc' = "await"
                /\ UNCHANGED <<client, op_result, outcome>>
           ELSE /\ op_result' = Raise(request.error)
                /\ Finish(format_error_response(request.error))
                /\ UNCHANGED requests
    /\ UNCHANGED <<env, name, arguments, config, call, all_ids, continue_after_id,
                   responses, previous, tasks, tools>>

\* What a single-request operation returns for the response.
ResultOf(c, response) ==
    CASE c.op \in ListingOps -> ListingResult(c.op, response)
      [] c.op = "get_templates" -> TemplatesResult(response)
      [] c.op = "get_remaining_count" -> RemainingCountResult(response)
      [] c.op = "get_entity_suggestions" -> get_entity_suggestions(response)
      [] c.op \in DetailOps -> DetailResult(c.op, response)

OperationResult(response) == ResultOf(call, response)

\* The content call_tool returns for the value (or exception) of the client
\* operation: every exception is caught by one of the three except clauses.
ContentOf(c, result) ==
    IF ~result.ok
    THEN format_error_response(result.error)
    ELSE LET data == SuccessData(c, result.value)
         IN  IF data.ok
             THEN format_success_response(data.value)
             ELSE format_error_response(data.error)

ToolContent(result) == ContentOf(call, result)

\* The upstream answers the outstanding request; the operation handles the
\* answer, and get_all_ids runs the rest of its loop body.
Receive(response) ==
    /\ pc = "await"
    /\ response \in Responses(requests[Len(requests)])
    /\ responses' = Append(responses, response)
    /\ IF call.op = "get_all_ids"
       THEN LET step == GetAllIdsStep(all_ids, call.max_total,
                                      ListingResult(GetAllIdsOp(call.entity_type), response))
            IN  CASE step.kind = "continue" ->
                        /\ all_ids' = step.all_ids
                        /\ continue_after_id' = step.continue_after_id
                        /\ pc' = "send"
                        /\ UNCHANGED <<client, op_result, outcome>>
                  [] step.kind = "return" ->
                        /\ all_ids' = step.all_ids
                        /\ op_result' = Ok(step.all_ids)
                        /\ Finish(ToolContent(Ok(step.all_ids)))
                        /\ UNCHANGED continue_after_id
                  [] step.kind = "raise" ->
                        /\ op_result' = Raise(step.error)
                        /\ Finish(ToolContent(Raise(step.error)))
                        /\ UNCHANGED <<all_ids, continue_after_id>>
       ELSE /\ op_result' = OperationResult(response)
            /\ Finish(ToolContent(OperationResult(response)))
            /\ UNCHANGED <<all_ids, continue_after_id>>
    /\ UNCHANGED <<env, name, arguments, config, call, requests, previous, tasks,
                   tools>>

\* How an invocation ended: it raised, returned an error text or a result.
Ending(o) ==
    CASE o.kind = "raised" -> "raised"
      [] DOMAIN o.content[1].text = {"json"} -> "success"
      [] OTHER -> "error"

\* Mutation of NextCall: the ids and the cursor of get_all_ids outlive the
\* invocation, as attributes of a client shared by the invocations would.
NextCallKeepingIds ==
    /\ pc = "done"
    /\ pc' = "idle"
    /\ name' = ""
    /\ arguments' = NoArgs
    /\ config' = Absent
    /\ client' = "none"
    /\ call' = NoCall
    /\ requests' = <<>>
    /\ responses' = <<>>
    /\ op_result' = NoResult
    /\ outcome' = NoOutcome
    /\ previous' = Ending(outcome)
    /\ UNCHANGED <<env, all_ids, continue_after_id, tasks, tools>>

\* The server takes the next invocation: nothing of the last one is kept.
NextCall ==
    /\ pc = "done"
    /\ pc' = "idle"
    /\ name' = ""
    /\ arguments' = NoArgs
    /\ config' = Absent
    /\ client' = "none"
    /\ call' = NoCall
    /\ all_ids' = <<>>
    /\ continue_after_id' = None
    /\ requests' = <<>>
    /\ responses' = <<>>
    /\ op_result' = NoResult
    /\ outcome' = NoOutcome
    /\ previous' = Ending(outcome)
    /\ UNCHANGED <<env, tasks, tools>>

Next ==
    \/ \E n \in Names, a \in ArgBags : CallTool(n, a)
    \/ SendRequest
    \/ \E response \in FailureResponses
           \cup {HttpResponse(200, Array(<<"Firma s.r.o.">>))}
           \cup {HttpResponse(200, b) : b \in ListingBodies \cup OtherBodies} :
         Receive(response)
    \/ NextCall

Spec == Init /\ [][Next]_vars

\* The worker thread keeps running, and every GET ends: the upstream answers
\* it or the client's timeout makes it fail.
AnyReceive ==
    \E response \in FailureResponses
        \cup {HttpResponse(200, Array(<<"Firma s.r.o.">>))}
        \cup {HttpResponse(200, b) : b \in ListingBodies \cup OtherBodies} :
      Receive(response)

InitRunning ==
    /\ Init
    /\ env \in {NoEnv, [NoEnv EXCEPT !["REGISTERUZ_MAX_RECORDS"] = IntV(2)]}

SpecRunning ==
    InitRunning /\ [][Next]_vars /\ WF_vars(SendRequest) /\ WF_vars(AnyReceive)

(***************************************************************************)
(* Invocations in flight at the same time, and cancellation.  The MCP      *)
(* layer runs every call_tool as a task of its own; an aggregation runs in *)
(* a worker thread (asyncio.to_thread) while its coroutine awaits it.      *)
(* Cancelling the task raises CancelledError at the await: the with block  *)
(* closes the client and call_tool is left; the worker thread is not       *)
(* interrupted, and get_all_ids looks at nothing but the responses.  The   *)
(* thread meets the closed client only in self.client.get, which raises    *)
(* RuntimeError when it finds the client closed and otherwise marks it     *)
(* open and sends; the two steps are not atomic with respect to close().   *)
(***************************************************************************)
\* What the callers in flight pass, and what the upstream answers them.
TaskBags ==
    { [NoArgs EXCEPT !.entity_type = StrV("uctovne-zavierky")],
      [NoArgs EXCEPT !.entity_type = StrV("uctovne-jednotky"), !.max_total = IntV(MaxTotal)] }

TaskResponses ==
    {HttpResponse(200, Page(<<1>>, TRUE)), HttpResponse(200, Page(<<2, 3>>, TRUE)),
     HttpResponse(200, Page(<<4>>, FALSE)), TransportFailure}

InitTasks ==
    /\ Init
    /\ env = NoEnv

\* Mutation of TaskCursor: one cursor for all invocations, the one the first
\* task wrote, as an attribute of a shared object would be.
CursorOfFirstTask(t) == tasks["t1"].continue_after_id

\* continue_after_id, a local of the task's own get_all_ids frame.
TaskCursor(t) == tasks[t].continue_after_id

\* call_tool("get_all_entity_ids", a) up to its await.
TaskCallTool(t, a) ==
    /\ tasks[t].co = "idle"
    /\ LET cfg == get_config(env)
           d == Dispatch("get_all_entity_ids", a)
       IN  /\ cfg.ok
           /\ tasks' = [tasks EXCEPT ![t] =
                IF d.kind = "call"
                THEN [@ EXCEPT !.co = "awaiting", !.th = "send", !.arguments = a,
                               !.config = cfg.value, !.client = "open",
                               !.call = [d.call EXCEPT !.from_date =
                                           GetAllIdsFromDate(d.call.from_date, cfg.value)]]
                ELSE [@ EXCEPT !.co = "done", !.arguments = a, !.config = cfg.value,
                               !.client = "closed",
                               !.outcome = Returned(format_error_response(d.error))]]
    /\ UNCHANGED <<env, call_vars, tools>>

\* The worker thread has ended with the result; the coroutine, if it still
\* awaits the thread, leaves the with block and returns the content.
ThreadEnded(k, res) ==
    IF k.co = "awaiting"
    THEN [k EXCEPT !.th = "ended", !.th_result = res, !.co = "done",
                   !.client = "closed", !.outcome = Returned(ContentOf(k.call, res))]
    ELSE [k EXCEPT !.th = "ended", !.th_result = res]

\* Mutation of TaskCheck: the next page is requested while the answer to the
\* last one is still awaited.
TaskCheckAhead(t) ==
    /\ tasks[t].th \in {"send", "await"}
    /\ Len(tasks[t].requests) < MaxPages
    /\ tasks' = [tasks EXCEPT ![t] = [@ EXCEPT !.th = "checked"]]
    /\ UNCHANGED <<env, call_vars, tools>>

\* Top of the loop body: the parameters are built and self.client.get is
\* entered, which raises RuntimeError on a closed client.
TaskCheck(t) ==
    /\ tasks[t].th = "send"
    /\ Len(tasks[t].requests) < MaxPages
    /\ LET k == tasks[t]
           request == RequestOf(k.call, TaskCursor(t), k.config)
       IN  tasks' = [tasks EXCEPT ![t] =
                IF ~request.ok
                THEN ThreadEnded(k, Raise(request.error))
                ELSE IF k.client = "closed"
                THEN ThreadEnded(k, Raise(Exc("RuntimeError",
                         "Cannot send a request, as the client has been closed", None, None)))
                ELSE [k EXCEPT !.th = "checked"]]
    /\ UNCHANGED <<env, call_vars, tools>>

\* self.client.get past its check: the client is marked open and the GET
\* is issued.
TaskSend(t) ==
    /\ tasks[t].th = "checked"
    /\ LET k == tasks[t]
           request == RequestOf(k.call, TaskCursor(t), k.config)
       IN  tasks' = [tasks EXCEPT ![t] =
                [k EXCEPT !.th = "await", !.client = "open",
                          !.requests = Append(k.requests, request.value)]]
    /\ UNCHANGED <<env, call_vars, tools>>

\* The upstream answers the task's outstanding request: the rest of the
\* loop body of the task's get_all_ids.
TaskReceive(t, response) ==
    /\ tasks[t].th = "await"
    /\ LET k == [tasks[t] EXCEPT !.responses = Append(@, response)]
           step == GetAllIdsStep(k.all_ids, k.call.max_total,
                                 ListingResult(GetAllIdsOp(k.call.entity_type), response))
       IN  tasks' = [tasks EXCEPT ![t] =
                CASE step.kind = "continue" ->
                        [k EXCEPT !.th = "send", !.all_ids = step.all_ids,
                                  !.continue_after_id = step.continue_after_id]
                  [] step.kind = "return" ->
                        ThreadEnded([k EXCEPT !.all_ids = step.all_ids], Ok(step.all_ids))
                  [] step.kind = "raise" ->
                        ThreadEnded(k, Raise(step.error))]
    /\ UNCHANGED <<env, call_vars, tools>>

\* The task is cancelled while it awaits the thread: CancelledError leaves
\* call_tool through the with block, which closes the client.
TaskCancel(t) ==
    /\ tasks[t].co = "awaiting"
    /\ tasks' = [tasks EXCEPT ![t] =
            [@ EXCEPT !.co = "done", !.client = "closed",
                      !.outcome = Raised(Exc("CancelledError", "", None, None)),
                      !.cancelled_at = Len(tasks[t].requests),
                      !.cancelled_th = tasks[t].th]]
    /\ UNCHANGED <<env, call_vars, tools>>

NextTasks ==
    \/ \E t \in TaskIds, a \in TaskBags : TaskCallTool(t, a)
    \/ \E t \in TaskIds : TaskCheck(t)
    \/ \E t \in TaskIds : TaskSend(t)
    \/ \E t \in TaskIds, response \in TaskResponses : TaskReceive(t, response)
    \/ \E t \in TaskIds : TaskCancel(t)

SpecTasks == InitTasks /\ [][NextTasks]_vars

(***************************************************************************)
(* The caller's view of the tool surface: it may ask for the tool list at  *)
(* any time, before, between and during invocations.                       *)
(***************************************************************************)
InitTools ==
    /\ Init
    /\ env \in {NoEnv, [NoEnv EXCEPT !["REGISTERUZ_TIMEOUT"] = StrV("abc")]}

\* The list_tools handler: the caller receives the tool list.
ListTools ==
    /\ tools' = list_tools
    /\ UNCHANGED <<env, call_vars, tasks>>

NextTools ==
    \/ ListTools
    \/ \E n \in Names, a \in ArgBags : CallTool(n, a)
    \/ SendRequest
    \/ \E response \in FailureResponses
           \cup {HttpResponse(200, Array(<<"Firma s.r.o.">>))}
           \cup {HttpResponse(200, b) : b \in ListingBodies \cup OtherBodies} :
         Receive(response)
    \/ NextCall

SpecTools == InitTools /\ [][NextTools]_vars

(***************************************************************************)
(* Properties                                                              *)
(***************************************************************************)
\* The upstream's pages as the upstream sent them, read off the raw
\* responses: a response is a page when it is a 2xx JSON object whose id,
\* if present, is a list and whose existujeDalsieId, if present, is a bool.
GoodPage(r) ==
    /\ r.kind = "http"
    /\ r.status >= 200 /\ r.status <= 299
    /\ r.body.t = "obj"
    /\ r.body.v.id.t \in {"absent", "list"}
    /\ r.body.v.existujeDalsieId.t \in {"absent", "bool"}

IdsOf(r) == IF r.body.v.id.t = "list" THEN r.body.v.id.v ELSE <<>>
MoreOf(r) == IF r.body.v.existujeDalsieId.t = "bool" THEN r.body.v.existujeDalsieId.v ELSE FALSE

\* The ids of the first n pages received, in fetch order.
RECURSIVE Fetched(_)
Fetched(n) == IF n = 0 THEN <<>> ELSE Fetched(n - 1) \o IdsOf(responses[n])

Min(a, b) == IF a < b THEN a ELSE b

Aggregating == call.op = "get_all_ids"
AllPagesGood == \A i \in 1..Len(responses) : GoodPage(responses[i])

\* call_tool returned one text item holding a JSON document / an error text.
ReturnedOneText ==
    /\ outcome.kind = "returned"
    /\ Len(outcome.content) = 1
    /\ outcome.content[1].type = "text"
Succeeded == ReturnedOneText /\ DOMAIN outcome.content[1].text = {"json"}
Failed ==
    /\ ReturnedOneText
    /\ DOMAIN outcome.content[1].text = {"prefix", "error", "message"}
    /\ outcome.content[1].text.prefix = "Error"
ErrorType == outcome.content[1].text.error
ReturnedIds == outcome.content[1].text.json.ids

\* C1: get_all_ids without max_total, on pages of the upstream: a page with
\* existujeDalsieId = false is the last page requested and ends the call, and
\* the call returns exactly the concatenation of the id lists of the pages
\* fetched, in fetch order (count included).
C1_ConcatenationInFetchOrder ==
    (Aggregating /\ call.max_total = None /\ AllPagesGood) =>
        /\ \A i \in 1..Len(responses) :
              ~MoreOf(responses[i]) =>
                  i = Len(responses) /\ Len(requests) = i /\ pc = "done"
        /\ (pc = "done" /\ responses # <<>>) =>
              /\ Succeeded
              /\ ReturnedIds = Fetched(Len(responses))
              /\ all_ids = Fetched(Len(responses))
              /\ outcome.content[1].text.json.count = Len(Fetched(Len(responses)))

C1_Witness ==
    /\ Aggregating /\ call.max_total = None /\ pc = "done"
    /\ Len(responses) = 3
    /\ AllPagesGood
    /\ ~MoreOf(responses[3])
    /\ Succeeded
    /\ ReturnedIds = <<2, 1, 3, 4, 5, 1>>

\* C3: in get_all_ids the first request carries no pokracovat-za-id, and
\* every later request carries the last id of the page received just before.
C3_CursorIsLastIdOfPrecedingPage ==
    Aggregating =>
        \A i \in 1..Len(requests) :
            IF i = 1
            THEN requests[i].params["pokracovat-za-id"] = Absent
            ELSE /\ GoodPage(responses[i - 1])
                 /\ IdsOf(responses[i - 1]) # <<>>
                 /\ requests[i].params["pokracovat-za-id"] =
                        IntV(IdsOf(responses[i - 1])[Len(IdsOf(responses[i - 1]))])

C3_Witness ==
    /\ Aggregating
    /\ Len(requests) = 3
    /\ IdsOf(responses[1]) = <<3, 4, 5>>
    /\ IdsOf(responses[2]) = <<2, 1>>
    /\ requests[2].params["pokracovat-za-id"] = IntV(5)
    /\ requests[3].params["pokracovat-za-id"] = IntV(1)

\* C4: in get_all_ids (max_total an int or None, as its signature declares) a
\* page with existujeDalsieId = true and no ids is the last page requested:
\* the call ends in success and returns the ids of the pages before it.
C4_EmptyPageEndsLoop ==
    (Aggregating /\ call.max_total.t \in {"none", "int"}) =>
        \A i \in 1..Len(responses) :
            (GoodPage(responses[i]) /\ MoreOf(responses[i]) /\ IdsOf(responses[i]) = <<>>) =>
                /\ i = Len(responses)
                /\ Len(requests) = i
                /\ pc = "done"
                /\ Succeeded
                /\ ReturnedIds = Fetched(i - 1)

C4_Witness ==
    /\ Aggregating /\ pc = "done"
    /\ Len(responses) = 2
    /\ GoodPage(responses[2]) /\ MoreOf(responses[2]) /\ IdsOf(responses[2]) = <<>>
    /\ Succeeded
    /\ ReturnedIds = <<2, 1>>

\* C5: when a page request of get_all_ids fails (transport failure, non-2xx
\* status, undecodable body, body that is not a page), on the first page or
\* a later one, no further page is requested and the tool returns an error
\* text: none of the ids accumulated so far are returned.
C5_AllOrNothing ==
    Aggregating =>
        \A i \in 1..Len(responses) :
            ~GoodPage(responses[i]) =>
                /\ i = Len(responses)
                /\ Len(requests) = i
                /\ pc = "done"
                /\ Failed
                /\ outcome.content[1].text.message.arg.t \in {"none", "int"}

C5_Witness ==
    /\ Aggregating /\ pc = "done"
    /\ Len(responses) = 3
    /\ ~GoodPage(responses[3])
    /\ all_ids = <<3, 4, 5, 1>>
    /\ Failed

\* C2: get_all_ids with max_total = k returns min(k, ids available) ids,
\* the first ones in fetch order (when fewer than k are returned the upstream
\* had ended, so the pages fetched hold every id available).
C2_BoundEnforced ==
    (Aggregating /\ call.max_total.t = "int" /\ call.max_total.v >= 0
        /\ pc = "done" /\ Succeeded) =>
        LET available == Fetched(Len(responses))
        IN  /\ Len(ReturnedIds) = Min(call.max_total.v, Len(available))
            /\ ReturnedIds = SubSeq(available, 1, Len(ReturnedIds))

\* C6: call_tool never raises: every invocation ends by returning exactly
\* one text item, a JSON document or "Error: <type>: <message>".
C6_NeverRaises ==
    pc = "done" => ReturnedOneText /\ (Succeeded \/ Failed)

\* An argument bag that breaks the tool's declared schema: a required key is
\* missing or a property has a value of another JSON type.
InvalidBag(tool, a) ==
    \/ \E k \in SchemaRequired(tool) : a[k] = Absent
    \/ \E k \in SchemaProperties(tool) : a[k] # Absent /\ a[k].t # SchemaType(k)

\* C7: a call (configuration loaded) whose argument bag lacks a required
\* field or has a field of the wrong type returns a ValidationError error
\* text, and sends no upstream request.
C7_InvalidArgumentsGiveValidationError ==
    (pc # "idle" /\ config # Absent /\ name \in ToolNames /\ InvalidBag(name, arguments)) =>
        /\ requests = <<>>
        /\ pc = "done"
        /\ Failed
        /\ ErrorType = "ValidationError"

\* C8: get_all_entity_ids with max_total 0 or negative (configuration
\* loaded) is rejected before any page is requested.
C8_NonPositiveMaxTotalRejected ==
    (name = "get_all_entity_ids" /\ config # Absent
        /\ arguments.max_total.t = "int" /\ arguments.max_total.v <= 0) =>
        /\ requests = <<>>
        /\ pc = "done" => Failed

\* C9: with max_total set, no page is requested once the ids accumulated
\* have reached max_total: before every request after the first, fewer than
\* max_total ids had been fetched.
C9_NoRequestOnceLimitReached ==
    (Aggregating /\ call.max_total.t = "int") =>
        \A i \in 1..(Len(requests) - 1) : Len(Fetched(i)) < call.max_total.v

\* C10: call_tool with a name that is not a registered tool returns the
\* error text "Error: ValueError: Unknown tool: <name>", whatever the
\* argument bag, and does not raise.
C10_UnknownToolPayload ==
    (pc = "done" /\ name \notin ToolNames) =>
        /\ Failed
        /\ ErrorType = "ValueError"
        /\ outcome.content[1].text.message = [msg |-> "Unknown tool", arg |-> StrV(name)]
        /\ requests = <<>>

\* Supplement to C2: for every positive max_total the bound is enforced.
C2_PositiveBoundEnforced ==
    (Aggregating /\ call.max_total.t = "int" /\ call.max_total.v >= 1
        /\ pc = "done" /\ Succeeded) =>
        LET available == Fetched(Len(responses))
        IN  /\ Len(ReturnedIds) = Min(call.max_total.v, Len(available))
            /\ ReturnedIds = SubSeq(available, 1, Len(ReturnedIds))
            /\ Len(ReturnedIds) < call.max_total.v =>
                  ~MoreOf(responses[Len(responses)]) \/ IdsOf(responses[Len(responses)]) = <<>>

\* Supplement to C9: for every positive max_total no page is requested once
\* the limit is reached.
C9_PositiveLimitStopsRequests ==
    (Aggregating /\ call.max_total.t = "int" /\ call.max_total.v >= 1) =>
        \A i \in 1..(Len(requests) - 1) : Len(Fetched(i)) < call.max_total.v

\* The four listing tools, by the name call_tool is given.
ListingTools == {"search_accounting_entities", "get_financial_statements",
                 "get_financial_reports", "get_annual_reports"}

MaxRecordsOutOfRange(a) ==
    /\ a.max_records.t = "int"
    /\ a.max_records.v < MinMaxZaznamov \/ a.max_records.v > MaxMaxZaznamov

\* A request to one of the four listing paths.
IsListingRequest(request) ==
    request.base = ApiBase /\ request.path \in {ListingPath(op) : op \in ListingOps}

MaxZaznamovInRange(request) ==
    \/ request.params["max-zaznamov"] = Absent
    \/ /\ request.params["max-zaznamov"].t = "int"
       /\ request.params["max-zaznamov"].v >= MinMaxZaznamov
       /\ request.params["max-zaznamov"].v <= MaxMaxZaznamov

\* C11: a listing tool called with max_records present and outside
\* [1,10000] returns a ValidationError error text and sends no request; and
\* every listing request sent carries max-zaznamov in [1,10000] or omits it.
C11_MaxRecordsOutOfRangeRejected ==
    /\ (pc # "idle" /\ name \in ListingTools /\ MaxRecordsOutOfRange(arguments)) =>
          /\ requests = <<>>
          /\ pc = "done"
          /\ Failed
          /\ ErrorType = "ValidationError"
    /\ \A i \in 1..Len(requests) :
          IsListingRequest(requests[i]) => MaxZaznamovInRange(requests[i])

\* Supplement to C11: once the configuration has loaded and changed_from is
\* given, the out-of-range value is rejected as the claim says, and no
\* listing request ever carries max-zaznamov outside [1,10000].
C11_RejectedOnceConfigured ==
    /\ (pc # "idle" /\ config # Absent /\ arguments.changed_from # Absent
           /\ name \in ListingTools /\ MaxRecordsOutOfRange(arguments)) =>
          /\ requests = <<>>
          /\ pc = "done"
          /\ Failed
          /\ ErrorType = "ValidationError"
    /\ \A i \in 1..Len(requests) :
          IsListingRequest(requests[i]) => MaxZaznamovInRange(requests[i])

\* The client operation of the invocation has ended in the exception type.
OperationFailed == op_result # NoResult /\ ~op_result.ok
OperationRaised(type) == OperationFailed /\ op_result.error.type = type

\* The upstream answered with a status outside 200..299.
NonSuccess(r) == r.kind = "http" /\ (r.status < 200 \/ r.status > 299)

\* C12 as stated: a non-2xx answer makes the client operation, whichever it
\* is, fail with RegisterUZAPIError carrying the upstream status and the
\* message "API request failed"; no result is decoded from the body.
C12_NonSuccessIsApiRequestFailed ==
    \A i \in 1..Len(responses) :
        NonSuccess(responses[i]) =>
            /\ i = Len(responses)
            /\ OperationRaised("RegisterUZAPIError")
            /\ op_result.error.status_code = IntV(responses[i].status)
            /\ op_result.error.msg = "API request failed"

\* C12, corrected: a non-2xx answer makes the client operation fail with
\* RegisterUZAPIError carrying the upstream status, and no result is decoded
\* from the body; the message is "API request failed" for the operations on
\* the shared client and "Failed to get entity suggestions" for
\* get_entity_suggestions.
C12_NonSuccessCarriesStatus ==
    \A i \in 1..Len(responses) :
        NonSuccess(responses[i]) =>
            /\ i = Len(responses)
            /\ pc = "done"
            /\ OperationRaised("RegisterUZAPIError")
            /\ op_result.error.status_code = IntV(responses[i].status)
            /\ op_result.error.msg =
                  IF call.op = "get_entity_suggestions"
                  THEN "Failed to get entity suggestions"
                  ELSE "API request failed"
            /\ Failed

C12_Witness ==
    /\ Aggregating /\ pc = "done"
    /\ Len(responses) = 2
    /\ responses[2] = HttpResponse(503, Page(<<1>>, FALSE))
    /\ OperationRaised("RegisterUZAPIError")
    /\ op_result.error.status_code = IntV(503)
    /\ all_ids = <<3, 4, 5>>

\* The upstream answered 2xx with a body the parser fails on.
ParseFailure(r) ==
    /\ r.kind = "http" /\ r.status >= 200 /\ r.status <= 299
    /\ r.body.t \in {"notjson", "unparsable"}

\* C13: a 2xx answer whose body the parser fails on, whatever the parser
\* raises, makes the client operation fail with RegisterUZAPIError and the
\* message "Invalid JSON response".
C13_ParseFailureIsInvalidJson ==
    \A i \in 1..Len(responses) :
        ParseFailure(responses[i]) =>
            /\ i = Len(responses)
            /\ OperationRaised("RegisterUZAPIError")
            /\ op_result.error.msg = "Invalid JSON response"

\* Supplement to C13: on the shared client a body on which the parser raises
\* json.JSONDecodeError gives RegisterUZAPIError "Invalid JSON response"
\* without a status.
C13_JsonDecodeErrorIsInvalidJson ==
    \A i \in 1..Len(responses) :
        (ParseFailure(responses[i]) /\ responses[i].body.t = "notjson"
            /\ call.op # "get_entity_suggestions") =>
            /\ i = Len(responses)
            /\ OperationRaised("RegisterUZAPIError")
            /\ op_result.error.msg = "Invalid JSON response"
            /\ op_result.error.status_code = None

\* C14: when the GET fails in transport, the operation (listing, detail, and
\* every other one) fails with RegisterUZAPIError without a status code, and
\* the tool returns its error text; a non-2xx answer always has the code.
C14_TransportFailureHasNoStatus ==
    \A i \in 1..Len(responses) :
        /\ responses[i].kind = "transport" =>
              /\ i = Len(responses)
              /\ pc = "done"
              /\ OperationRaised("RegisterUZAPIError")
              /\ op_result.error.status_code = None
              /\ call.op \in ListingOps => op_result.error.msg = ListingFailure(call.op)
              /\ Failed
              /\ ErrorType = "RegisterUZAPIError"
        /\ NonSuccess(responses[i]) => op_result.error.status_code.t = "int"

C14_Witness ==
    /\ call.op = "get_financial_report_detail" /\ pc = "done"
    /\ responses = <<TransportFailure>>
    /\ OperationRaised("RegisterUZAPIError")
    /\ op_result.error.status_code = None
    /\ Failed

\* A 2xx JSON object that omits id or existujeDalsieId and has the other
\* field, if present, well-typed.
PageOmittingField(r) ==
    /\ GoodPage(r)
    /\ r.body.v.id = Absent \/ r.body.v.existujeDalsieId = Absent

Payload == outcome.content[1].text.json

\* C15: a listing response that omits existujeDalsieId is decoded with
\* has_more = false and one that omits id with no ids; in get_all_ids
\* (max_total an int or None, as its signature declares) such a page is the
\* last page requested and the call succeeds with the ids fetched.
C15_OmittedFieldsTolerated ==
    /\ (call.op \in ListingOps /\ responses # <<>> /\ PageOmittingField(responses[1])) =>
          /\ pc = "done" /\ Succeeded /\ op_result.ok
          /\ responses[1].body.v.existujeDalsieId = Absent =>
                ~op_result.value.existujeDalsieId /\ ~Payload.has_more
          /\ responses[1].body.v.id = Absent =>
                op_result.value.id = <<>> /\ Payload.ids = <<>>
    /\ (Aggregating /\ call.max_total.t \in {"none", "int"}) =>
          \A i \in 1..Len(responses) :
              PageOmittingField(responses[i]) =>
                  /\ i = Len(responses)
                  /\ Len(requests) = i
                  /\ pc = "done"
                  /\ Succeeded
                  /\ ReturnedIds = SubSeq(Fetched(i), 1, Len(ReturnedIds))
                  /\ call.max_total = None => ReturnedIds = Fetched(i)

C15_Witness ==
    /\ Aggregating /\ pc = "done"
    /\ Len(responses) = 2
    /\ responses[2].kind = "http"
    /\ responses[2].body = Obj([EmptyObj EXCEPT !.existujeDalsieId = BoolV(TRUE)])
    /\ Succeeded
    /\ ReturnedIds = <<3, 4, 5>>

\* C16: on success count is the length of the list returned: a listing tool
\* returns the page's ids in order, its existujeDalsieId as has_more and
\* count = len(ids); get_all_entity_ids the aggregated ids and their number;
\* get_templates one entry per template of the upstream and their number.
C16_CountIsLength ==
    (pc = "done" /\ Succeeded) =>
        /\ call.op \in ListingOps =>
              /\ Payload.ids = IdsOf(responses[1])
              /\ Payload.has_more = MoreOf(responses[1])
              /\ Payload.count = Len(Payload.ids)
        /\ call.op = "get_all_ids" =>
              /\ Payload.ids = all_ids
              /\ Payload.count = Len(Payload.ids)
        /\ call.op = "get_templates" =>
              LET sablony == responses[1].body.v.sablony
              IN  /\ Payload.count = Len(Payload.templates)
                  /\ Payload.count = IF sablony = Absent THEN 0 ELSE Len(sablony.v)
                  /\ \A i \in 1..Payload.count : Payload.templates[i].id = sablony.v[i].id.v
        /\ call.op = "get_entity_suggestions" =>
              Payload.count = Len(Payload.suggestions)

C16_Witness ==
    /\ call.op = "get_financial_reports" /\ pc = "done" /\ Succeeded
    /\ responses = <<HttpResponse(200, Page(<<3, 4, 5>>, TRUE))>>
    /\ Payload = [ids |-> <<3, 4, 5>>, has_more |-> TRUE, count |-> 3]

\* C17: for a detail tool, a field the upstream omitted is omitted in the
\* output, and the output differs from the one the same record gives with
\* that field sent as null.
C17_OmittedAndNullDiffer ==
    (pc = "done" /\ call.op \in DetailOps /\ Succeeded) =>
        \A f \in DetailFields(call.op) \ {"id"} :
            LET body == responses[1].body.v
                with_null == HttpResponse(200, Obj([body EXCEPT ![f] = None]))
            IN  body[f] = Absent =>
                    /\ Payload[f] = Absent
                    /\ outcome.content # ContentOf(call, DetailResult(call.op, with_null))

\* Supplement to C17: an omitted field is never output, and neither is one
\* sent as null.
C17_OmittedAndNullBothDropped ==
    (pc = "done" /\ call.op \in DetailOps /\ Succeeded) =>
        \A f \in DetailFields(call.op) \ {"id"} :
            responses[1].body.v[f] \in {Absent, None} => Payload[f] = Absent

\* An invocation running alone, from nothing but the environment, its name,
\* its arguments and the upstream's answers to its requests: the requests it
\* sends and how it ends (NoOutcome while the answers given do not end it).
RECURSIVE AloneLoop(_, _, _, _, _, _)
AloneLoop(cfg, c, ids, cursor, resps, reqs) ==
    LET request == RequestOf(c, cursor, cfg)
    IN  IF ~request.ok
        THEN [requests |-> reqs,
              outcome |-> Returned(format_error_response(request.error))]
        ELSE IF Len(reqs) >= Len(resps)
        THEN [requests |-> Append(reqs, request.value), outcome |-> NoOutcome]
        ELSE IF c.op # "get_all_ids"
        THEN [requests |-> Append(reqs, request.value),
              outcome |-> Returned(ContentOf(c, ResultOf(c, resps[Len(reqs) + 1])))]
        ELSE LET page == ListingResult(GetAllIdsOp(c.entity_type), resps[Len(reqs) + 1])
                 step == GetAllIdsStep(ids, c.max_total, page)
             IN  CASE step.kind = "continue" ->
                        AloneLoop(cfg, c, step.all_ids, step.continue_after_id, resps,
                                  Append(reqs, request.value))
                   [] step.kind = "return" ->
                        [requests |-> Append(reqs, request.value),
                         outcome |-> Returned(ContentOf(c, Ok(step.all_ids)))]
                   [] step.kind = "raise" ->
                        [requests |-> Append(reqs, request.value),
                         outcome |-> Returned(ContentOf(c, Raise(step.error)))]

Alone(e, n, a, resps) ==
    LET cfg == get_config(e)
        d == Dispatch(n, a)
    IN  IF ~cfg.ok
        THEN [requests |-> <<>>, outcome |-> Raised(cfg.error)]
        ELSE IF d.kind # "call"
        THEN [requests |-> <<>>, outcome |-> Returned(format_error_response(d.error))]
        ELSE AloneLoop(cfg.value,
                       IF d.call.op = "get_all_ids"
                       THEN [d.call EXCEPT !.from_date =
                               GetAllIdsFromDate(d.call.from_date, cfg.value)]
                       ELSE d.call,
                       <<>>, None, resps, <<>>)

\* C18: whatever invocations came before and however they ended, an
\* invocation sends the requests and ends the way it would from its name,
\* its arguments, the configuration and the answers to its own requests
\* alone; after an invocation that failed or raised the next one is served.
C18_Stateless ==
    /\ pc \in {"await", "done"} =>
          /\ requests = Alone(env, name, arguments, responses).requests
          /\ outcome = Alone(env, name, arguments, responses).outcome
    /\ (pc = "idle" /\ previous # "none") =>
          /\ client = "none" /\ config = Absent /\ call = NoCall
          /\ all_ids = <<>> /\ continue_after_id = None
          /\ requests = <<>> /\ responses = <<>>

C18_Witness ==
    /\ previous = "error"
    /\ Aggregating /\ pc = "done"
    /\ Len(responses) = 2
    /\ Succeeded
    /\ ReturnedIds = <<2, 1, 3, 4, 5>>

NotCancelled(k) == k.cancelled_at < 0

\* C19: with two get_all_entity_ids invocations in flight, in every
\* interleaving of their page fetches each one sends the requests (cursors
\* included) and returns the result that it would running alone against the
\* answers it received.
C19_InFlightCallsDoNotInterfere ==
    \A t \in TaskIds :
        LET k == tasks[t]
            alone == Alone(env, "get_all_entity_ids", k.arguments, k.responses)
        IN  (NotCancelled(k) /\ k.th \in {"await", "ended"}) =>
                /\ k.requests = alone.requests
                /\ k.outcome = alone.outcome
                /\ k.th = "ended" <=> k.co = "done"

C19_Witness ==
    /\ \A t \in TaskIds : NotCancelled(tasks[t]) /\ tasks[t].th = "await"
    /\ tasks["t1"].responses = <<HttpResponse(200, Page(<<1>>, TRUE))>>
    /\ tasks["t2"].responses = <<HttpResponse(200, Page(<<2, 3>>, TRUE))>>
    /\ tasks["t1"].requests[2].params["pokracovat-za-id"] = IntV(1)
    /\ tasks["t2"].requests[2].params["pokracovat-za-id"] = IntV(3)

\* C20: once a get_all_entity_ids invocation is cancelled, its aggregation
\* sends at most the page request it was about to send or had in flight:
\* with n requests sent at the cancellation, never more than n + 1.
C20_CancelledStopsAtNextPage ==
    \A t \in TaskIds :
        ~NotCancelled(tasks[t]) =>
            Len(tasks[t].requests) <= tasks[t].cancelled_at + 1

\* Supplement to C20: when close() does not land inside self.client.get,
\* between its check and its marking the client open, the thread stops at
\* its next GET: no request after the one in flight at the cancellation.
C20_StopsUnlessCloseRacesGet ==
    \A t \in TaskIds :
        (~NotCancelled(tasks[t]) /\ tasks[t].cancelled_th # "checked") =>
            Len(tasks[t].requests) <= tasks[t].cancelled_at

\* The client operation each listing tool calls.
ListingOpOf(tool) ==
    IF tool = "search_accounting_entities" THEN "get_accounting_entities" ELSE tool

\* The cursor get_all_ids holds when it sends its i-th request: none for the
\* first, then the last id of the page before.
CursorSent(i) ==
    IF i = 1 THEN Absent
    ELSE IntV(IdsOf(responses[i - 1])[Len(IdsOf(responses[i - 1]))])

\* The base parameters of the i-th request are the caller's values under the
\* wire names: of the tool's arguments for a listing tool, of get_all_ids'
\* from_date, cursor and page size for an aggregation.
BaseParamsAsGiven(i) ==
    LET p == requests[i].params
    IN  IF Aggregating
        THEN /\ p["zmenene-od"] = call.from_date
             /\ p["pokracovat-za-id"] = CursorSent(i)
             /\ p["max-zaznamov"] = IntV(config.max_records)
        ELSE /\ p["zmenene-od"] = arguments.changed_from
             /\ p["pokracovat-za-id"] = arguments.continue_after_id
             /\ p["max-zaznamov"] = arguments.max_records

\* Every listing request of the invocation goes to the path of its operation.
ListingPathAsGiven(i) ==
    /\ requests[i].base = ApiBase
    /\ requests[i].path =
          ListingPath(IF Aggregating THEN GetAllIdsOp(call.entity_type)
                      ELSE ListingOpOf(name))

SendsListingRequests == name \in ListingTools \/ Aggregating

\* C21: every listing request carries zmenene-od with the caller's date,
\* pokracovat-za-id exactly when a cursor is set and with its value,
\* max-zaznamov exactly when a page size is set and with its value, and a
\* request for accounting entities goes to /uctovne-jednotky with the ico, dic
\* and pravna-forma filters the caller gave, unchanged.
C21_WireNamesCarryCallerValues ==
    SendsListingRequests =>
        \A i \in 1..Len(requests) :
            /\ ListingPathAsGiven(i)
            /\ BaseParamsAsGiven(i)
            /\ name = "search_accounting_entities" =>
                  /\ requests[i].path = <<"uctovne-jednotky">>
                  /\ requests[i].params["ico"] = arguments.ico
                  /\ requests[i].params["dic"] = arguments.dic
                  /\ requests[i].params["pravna-forma"] = arguments.legal_form

\* C21, amended: the base parameters and the path are as the claim says, a
\* filter is sent unchanged exactly when the caller gave a non-empty string,
\* and no other parameter is sent.
C21_TruthyFiltersSent ==
    SendsListingRequests =>
        \A i \in 1..Len(requests) :
            /\ ListingPathAsGiven(i)
            /\ BaseParamsAsGiven(i)
            /\ \A k \in {"id", "query"} : requests[i].params[k] = Absent
            /\ LET sent(a) == IF a # Absent /\ Truthy(a) THEN a ELSE Absent
               IN  IF name = "search_accounting_entities"
                   THEN /\ requests[i].params["ico"] = sent(arguments.ico)
                        /\ requests[i].params["dic"] = sent(arguments.dic)
                        /\ requests[i].params["pravna-forma"] = sent(arguments.legal_form)
                   ELSE \A k \in {"ico", "dic", "pravna-forma"} :
                            requests[i].params[k] = Absent

\* A search for accounting entities has sent its request with a non-empty
\* ico, an empty dic and a legal form.
C21_Witness ==
    /\ name = "search_accounting_entities"
    /\ Len(requests) = 1
    /\ arguments.ico = StrV("12345678")
    /\ requests[1].params["ico"] = StrV("12345678")
    /\ arguments.dic = StrV("")
    /\ requests[1].params["dic"] = Absent
    /\ requests[1].params["pravna-forma"] = StrV("112")

\* The names of the tools the caller was given.
Advertised == {tools[i].name : i \in 1..Len(tools)}
ToolsListed == tools # <<>>

TestedTools ==
    {"search_accounting_entities", "get_financial_statements", "get_financial_reports",
     "get_annual_reports", "get_templates", "get_remaining_count", "get_all_entity_ids"}

FailedPage(r) == ~GoodPage(r)

\* After the first failed page request the aggregation has ended in an error
\* payload and that request was its last.
StopsAtFirstFailure ==
    \A i \in 1..Len(responses) :
        FailedPage(responses[i]) =>
            /\ i = Len(requests)
            /\ pc = "done"
            /\ Failed

\* C23: get_all_ids never retries: within one aggregation each page (each
\* cursor value) is requested at most once, and after the first failed page
\* request the aggregation issues no further request.
C23_EachCursorRequestedOnce ==
    Aggregating =>
        /\ \A i, j \in 1..Len(requests) : i < j => requests[i] # requests[j]
        /\ StopsAtFirstFailure

\* C23, amended: after the first failed page request no further request is
\* issued, the first page is requested once, and a cursor is requested a
\* second time only when the upstream ended two pages with the same id.
C23_NoRetry ==
    Aggregating =>
        /\ StopsAtFirstFailure
        /\ \A i, j \in 1..Len(requests) :
              (i < j /\ requests[i] = requests[j]) =>
                  /\ i >= 2
                  /\ GoodPage(responses[i - 1]) /\ GoodPage(responses[j - 1])
                  /\ CursorSent(i) = CursorSent(j)

\* An aggregation whose second page request failed has ended with two
\* requests sent.
C23_Witness ==
    /\ Aggregating
    /\ pc = "done"
    /\ Len(requests) = 2
    /\ GoodPage(responses[1])
    /\ FailedPage(responses[2])
    /\ Failed

\* The upstream ended two pages with the same id and the aggregation has
\* requested the same cursor twice.
C23_SameCursorTwice ==
    /\ Aggregating
    /\ Len(requests) = 3
    /\ requests[2] = requests[3]

\* The date an aggregation asks for: the caller's changed_from, or the
\* configured default when the caller gave none.
FromDateAsked ==
    IF arguments.changed_from # Absent /\ Truthy(arguments.changed_from)
    THEN arguments.changed_from
    ELSE StrV(config.default_from_date)

\* C24: across all page requests of one get_all_ids aggregation only the
\* cursor changes: every request goes to the one path of the entity kind,
\* with the same zmenene-od (the caller's from_date, or default_from_date when
\* none is given) and the same max-zaznamov, the configured max_records.
C24_OnlyCursorChanges ==
    Aggregating =>
        /\ \A i \in 1..Len(requests) :
              /\ requests[i].base = ApiBase
              /\ requests[i].path = <<arguments.entity_type.v>>
              /\ requests[i].params["zmenene-od"] = FromDateAsked
              /\ requests[i].params["max-zaznamov"] = IntV(config.max_records)
        /\ \A i, j \in 1..Len(requests) :
              /\ requests[i].base = requests[j].base
              /\ requests[i].path = requests[j].path
              /\ \A k \in WireKeys \ {"pokracovat-za-id"} :
                    requests[i].params[k] = requests[j].params[k]

\* An aggregation without changed_from under a configured page size of 2 has
\* sent three requests with three different cursors.
C24_Witness ==
    /\ Aggregating
    /\ arguments.changed_from = Absent
    /\ config.max_records = 2
    /\ Len(requests) = 3
    /\ requests[1].params["pokracovat-za-id"] = Absent
    /\ requests[2].params["pokracovat-za-id"] # requests[3].params["pokracovat-za-id"]
    /\ requests[3].params["zmenene-od"] = StrV(DefaultFromDate)

\* An aggregation with the caller's changed_from has sent two requests.
C24_WitnessCallerDate ==
    /\ Aggregating
    /\ arguments.changed_from = StrV("2024-01-01")
    /\ Len(requests) = 2
    /\ requests[2].params["zmenene-od"] = StrV("2024-01-01")

\* The cursor the i-th request carried, 0 standing for none (ids are positive).
CursorOf(i) ==
    IF requests[i].params["pokracovat-za-id"] = Absent THEN 0
    ELSE requests[i].params["pokracovat-za-id"].v

StrictlyAscending(s) == \A i, j \in 1..Len(s) : i < j => s[i] < s[j]
NoDuplicates(s) == \A i, j \in 1..Len(s) : i < j => s[i] # s[j]

\* Every page the upstream has sent holds only ids greater than the cursor
\* it was asked with, in ascending order.
UpstreamHonoursContract ==
    \A i \in 1..Len(responses) :
        GoodPage(responses[i]) =>
            /\ StrictlyAscending(IdsOf(responses[i]))
            /\ \A n \in 1..Len(IdsOf(responses[i])) : IdsOf(responses[i])[n] > CursorOf(i)

\* C25: against an upstream that honours its contract, the cursors sent by
\* get_all_ids are strictly increasing, no page is fetched twice and no id
\* occurs twice in the result.
C25_CursorsStrictlyIncrease ==
    (Aggregating /\ UpstreamHonoursContract) =>
        /\ \A i, j \in 1..Len(requests) :
              i < j => /\ requests[j].params["pokracovat-za-id"] # Absent
                       /\ CursorOf(i) < CursorOf(j)
                       /\ requests[i] # requests[j]
        /\ NoDuplicates(all_ids)
        /\ Succeeded => NoDuplicates(ReturnedIds)

\* An aggregation over three pages of a contract-honouring upstream has
\* returned the ids of the first two; its cursors were none, 1 and 5.
C25_Witness ==
    /\ Aggregating
    /\ UpstreamHonoursContract
    /\ Succeeded
    /\ Len(requests) = 3
    /\ CursorOf(1) = 0 /\ CursorOf(2) = 1 /\ CursorOf(3) = 5
    /\ ReturnedIds = <<1, 3, 4, 5>>

\* The task's requests that have no response yet.
Outstanding(k) == Len(k.requests) - Len(k.responses)

\* C26: within one aggregation at most one page request is outstanding at any
\* time: the request for page n+1 is issued only after the response for page
\* n has been received and decoded, whatever other aggregations are doing.
C26_OnePageRequestOutstanding ==
    \A t \in TaskIds :
        LET k == tasks[t]
        IN  /\ Outstanding(k) \in {0, 1}
            /\ Outstanding(k) = 1 <=> k.th = "await"
            /\ \A i \in 2..Len(k.requests) :
                  /\ GoodPage(k.responses[i - 1])
                  /\ IdsOf(k.responses[i - 1]) # <<>>
                  /\ k.requests[i].params["pokracovat-za-id"] =
                        IntV(IdsOf(k.responses[i - 1])[Len(IdsOf(k.responses[i - 1]))])

\* Two aggregations each have one request outstanding, one of them its
\* third and the other its first.
C26_Witness ==
    /\ tasks["t1"].th = "await" /\ Len(tasks["t1"].requests) = 3
    /\ Len(tasks["t1"].responses) = 2
    /\ tasks["t2"].th = "await" /\ Len(tasks["t2"].requests) = 1

\* C27: the client call_tool creates is closed on every exit path of the
\* call, and no request is issued on it once it has been closed, also when
\* the call is cancelled while the worker thread of get_all_ids paginates:
\* an invocation that has ended has a closed client, and a cancelled one has
\* sent no request since the cancellation closed its client.
C27_ClosedClientSendsNothing ==
    \A t \in TaskIds :
        tasks[t].co = "done" =>
            /\ tasks[t].client = "closed"
            /\ ~NotCancelled(tasks[t]) =>
                  Len(tasks[t].requests) <= tasks[t].cancelled_at

\* Supplement to C27: an invocation that is not cancelled leaves with its
\* client closed on every path on which it had created one (result, error
\* text, unknown tool), and all its requests were sent before that.
C27_ClosedOnEveryReturn ==
    /\ (pc = "done" /\ config # Absent) => (client = "closed" /\ outcome.kind = "returned")
    /\ (pc = "done" /\ config = Absent) => (client = "none" /\ outcome.kind = "raised")
    /\ pc \in {"send", "await"} => client = "open"
    /\ (pc = "idle" \/ client # "open") => Len(requests) = Len(responses)

\* Supplement to C27: every request is sent by an invocation whose client
\* is open and stays open.
C27_RequestsOnOpenClient ==
    [][requests' # requests /\ requests' # <<>> => client = "open" /\ client' = "open"]_vars

\* Supplement to C27: when close() does not land inside self.client.get,
\* between its check and its marking the client open, the cancelled
\* invocation's client stays closed and sends nothing more.
C27_HoldsUnlessCloseRacesGet ==
    \A t \in TaskIds :
        (tasks[t].co = "done" /\ tasks[t].cancelled_th # "checked") =>
            /\ tasks[t].client = "closed"
            /\ ~NotCancelled(tasks[t]) =>
                  Len(tasks[t].requests) <= tasks[t].cancelled_at

\* An aggregation called with a positive max_total.
PositiveMaxTotal ==
    /\ Aggregating
    /\ call.max_total.t = "int"
    /\ call.max_total.v > 0

\* C28: with a positive max_total get_all_ids sends at most max_total page
\* requests and terminates, against every upstream, one that reports
\* existujeDalsieId = true on every page included.
C28_TerminatesWithinMaxTotalRequests ==
    /\ [](PositiveMaxTotal => Len(requests) <= call.max_total.v)
    /\ (PositiveMaxTotal /\ call.max_total.v <= MaxPages) ~> (pc = "done")

\* An aggregation with max_total = 3 has ended after three pages of one id,
\* each reporting existujeDalsieId = true.
C28_Witness ==
    /\ PositiveMaxTotal
    /\ call.max_total.v = 3
    /\ pc = "done"
    /\ Len(responses) = 3
    /\ \A i \in 1..3 : GoodPage(responses[i]) /\ MoreOf(responses[i])
                       /\ Len(IdsOf(responses[i])) = 1
    /\ Succeeded
    /\ Len(ReturnedIds) = 3

\* call_tool answered with the text of the else branch of its if/elif chain.
AnsweredUnknownTool ==
    /\ pc = "done"
    /\ Failed
    /\ ErrorType = "ValueError"
    /\ outcome.content[1].text.message.msg = "Unknown tool"

\* The invocation went into a branch of call_tool's if/elif chain other than
\* the final else.
Dispatched == pc # "idle" /\ config # Absent /\ ~AnsweredUnknownTool

\* C29: the tool names list_tools advertises are the tool names call_tool
\* dispatches: an invocation of an advertised name is never answered with
\* 'Unknown tool', and every name that call_tool dispatches is advertised.
C29_AdvertisedIsDispatched ==
    ToolsListed =>
        /\ name \in Advertised => ~AnsweredUnknownTool
        /\ (pc # "idle" /\ config # Absent /\ name \in Advertised) => Dispatched
        /\ Dispatched => name \in Advertised

\* The caller has the tool list, and an invocation of the last tool
\* advertised has succeeded.
C29_Witness ==
    /\ ToolsListed
    /\ name = tools[Len(tools)].name
    /\ pc = "done"
    /\ Succeeded

\* The caller has the tool list, and an invocation of a name that is not on
\* it has been answered.
C29_WitnessUnknown ==
    /\ ToolsListed
    /\ name \notin Advertised
    /\ AnsweredUnknownTool

EntityTools == {"get_all_entity_ids", "get_remaining_count"}

\* entity_type is given and is the value of one of the four entity kinds.
ValidEntityType(a) == a.entity_type.t = "str" /\ a.entity_type.v \in EntityTypes

\* The endpoint of an entity kind for each of the two tools.
EntityEndpoint(tool, entity_type) ==
    IF tool = "get_remaining_count"
    THEN <<"zostavajuce-id", entity_type>>
    ELSE <<entity_type>>

\* Every request of the invocation goes to the endpoint of its entity kind.
RequestsToEntityEndpoint ==
    \A i \in 1..Len(requests) :
        /\ requests[i].base = ApiBase
        /\ requests[i].path = EntityEndpoint(name, arguments.entity_type.v)

\* C30: get_all_entity_ids and get_remaining_count called with an entity_type
\* that is not one of the four entity kinds return an error payload and send
\* no request; every request they send goes to the endpoint of the entity
\* kind they were called with.
C30_InvalidEntityTypeRejected ==
    (pc # "idle" /\ name \in EntityTools) =>
        IF ValidEntityType(arguments)
        THEN RequestsToEntityEndpoint
        ELSE pc = "done" /\ Failed /\ requests = <<>>

\* Supplement to C30: once the configuration has loaded, the invalid
\* entity_type is answered with the error text of a ValueError (KeyError
\* when it is missing) without a request, and the requests go to the
\* endpoint of the entity kind.
C30_RejectedOnceConfigured ==
    (pc # "idle" /\ config # Absent /\ name \in EntityTools) =>
        IF ValidEntityType(arguments)
        THEN RequestsToEntityEndpoint
        ELSE /\ pc = "done" /\ Failed /\ requests = <<>>
             /\ ErrorType = IF arguments.entity_type = Absent THEN "KeyError"
                            ELSE "ValueError"

\* Supplement to C30: under an environment get_config rejects, the call
\* with the invalid entity_type raises instead of returning an error text.
C30_RaisesUnderBadEnvironment ==
    (pc # "idle" /\ config = Absent /\ name \in EntityTools) =>
        pc = "done" /\ outcome.kind = "raised" /\ requests = <<>>

====
